---- MODULE Spec2Model ----
(***************************************************************************)
(* Azure API management helpers (loginToApim, getUserSubscription,         *)
(* regeneratePrimaryKey / regenerateSecondaryKey,                          *)
(* addUserSubscriptionToProduct, addUserToGroups) as a state machine.      *)
(* One invocation runs at a time; every await of an SDK call is a          *)
(* suspension point: the call is issued by one action and answered         *)
(* (resolved or rejected) by the next.                                     *)
(***************************************************************************)
EXTENDS Integers, Sequences, FiniteSets, TLC

\* ---------------------------------------------------------------- bounds
MaxTime == 1          \* the clock runs over 0..MaxTime
MaxGroupsLen == 2     \* longest list of groups passed to addUserToGroups
MaxWrites == 2        \* subscriptions created plus keys regenerated by the service
TokenLifetime == 1    \* validity of a token handed out by the MSI endpoint

\* ------------------------------------------------------------- value sets
Groups == {"A", "B"}
UserIds == {"u1", "u2"}
ProductNames == {"p1", "p2", "p3"}

\* a falsy name (undefined or the empty string)
NoName == 0
\* the time value of an absent credential
AbsentExpireTime == 0
\* an expiresOn that does not parse as a date, and the number it converts to
InvalidDate == -1
NaN == -1

NoCred == [present |-> FALSE, src |-> "", expiresOn |-> 0]

NoSub ==
    [exists |-> FALSE, userId |-> "", name |-> NoName, displayName |-> 0,
     productId |-> "", state |-> "", primaryKey |-> 0, secondaryKey |-> 0]

NoParams == [displayName |-> 0, productId |-> "", state |-> "", userId |-> ""]

NoProduct == [present |-> FALSE, id |-> ""]

NoUser == [present |-> FALSE, name |-> ""]

\* the subscriptions the service holds at start: 1 is owned by u1, 2 by u2,
\* 3 is owned by u1 and carries no name
InitSubs ==
    << [exists |-> TRUE, userId |-> "u1", name |-> 1, displayName |-> 1,
        productId |-> "pid1", state |-> "active", primaryKey |-> 0, secondaryKey |-> 0],
       [exists |-> TRUE, userId |-> "u2", name |-> 2, displayName |-> 2,
        productId |-> "pid1", state |-> "active", primaryKey |-> 0, secondaryKey |-> 0],
       [exists |-> TRUE, userId |-> "u1", name |-> NoName, displayName |-> 3,
        productId |-> "pid1", state |-> "cancelled", primaryKey |-> 0, secondaryKey |-> 0] >>

SubIds == 1..(Len(InitSubs) + MaxWrites)

\* the products of the service: p1 is complete, p2 has no id, p3 is unknown
Products ==
    [p \in ProductNames |->
        CASE p = "p1" -> [present |-> TRUE, id |-> "pid1"]
          [] p = "p2" -> [present |-> TRUE, id |-> ""]
          [] OTHER    -> NoProduct]

\* the user arguments of addUserToGroups: well formed, without name, missing
UserArgs == {[present |-> TRUE, name |-> "u1"], [present |-> TRUE, name |-> ""], NoUser}

\* the credentials a caller can pass to loginToApim
CredArgs ==
    {NoCred} \cup
    {[present |-> TRUE, src |-> "passed", expiresOn |-> e] :
        e \in (0..(MaxTime + 1)) \cup {InvalidDate}}

RECURSIVE SeqsUpTo(_, _)
SeqsUpTo(S, n) ==
    IF n = 0 THEN {<<>>}
    ELSE LET shorter == SeqsUpTo(S, n - 1)
         IN shorter \cup {Append(s, x) : s \in {t \in shorter : Len(t) = n - 1}, x \in S}

GroupLists == SeqsUpTo(Groups, MaxGroupsLen)

\* ------------------------------------------------------------------ state
VARIABLES
    now,        \* Date.now()
    subs,       \* the service's subscriptions, by id
    members,    \* the service's group memberships, by user
    ulidCount,  \* identifiers handed out by ulid()
    regenCount, \* regenerate calls answered by the service
    pc,         \* position of the running invocation
    op,         \* the running invocation: function name and arguments
    loc,        \* its local variables
    calls,      \* the SDK calls it has issued, in order
    inflight,   \* indices in calls of the calls not yet answered
    result,     \* what it returned (or threw)
    pre         \* the service's state when it was called

vars == <<now, subs, members, ulidCount, regenCount, pc, op, loc, calls, inflight, result, pre>>

service == <<subs, members, ulidCount, regenCount>>

NoOp ==
    [name |-> "", cred |-> NoCred, sid |-> 0, userId |-> "", productName |-> "",
     user |-> NoUser, groups |-> <<>>]

NoLoc ==
    [nowRead |-> 0, first |-> NoSub, product |-> NoProduct, existing |-> {},
     missing |-> {}, steps |-> <<>>, vals |-> <<>>, stepCall |-> <<>>]

Pending == [tag |-> "pending", sub |-> NoSub, list |-> <<>>, cred |-> NoCred, err |-> ""]

\* the values an invocation ends with
None == [Pending EXCEPT !.tag = "none"]
Some(s) == [Pending EXCEPT !.tag = "some", !.sub = s]
Left(e) == [Pending EXCEPT !.tag = "left", !.err = e]
RightSub(s) == [Pending EXCEPT !.tag = "right", !.sub = s]
RightList(l) == [Pending EXCEPT !.tag = "right", !.list = l]
Cred(c) == [Pending EXCEPT !.tag = "cred", !.cred = c]
Throw(e) == [Pending EXCEPT !.tag = "throw", !.err = e]

Call(api, sid, key, params) == [api |-> api, sid |-> sid, key |-> key, params |-> params]

Init ==
    /\ now = 0
    /\ subs = [i \in SubIds |-> IF i <= Len(InitSubs) THEN InitSubs[i] ELSE NoSub]
    /\ members = [u \in UserIds |-> {}]
    /\ ulidCount = 0
    /\ regenCount = 0
    /\ pc = "idle"
    /\ op = NoOp
    /\ loc = NoLoc
    /\ calls = <<>>
    /\ inflight = {}
    /\ result = Pending
    /\ pre = [subs |-> subs, members |-> members]

\* an invocation starts: its arguments, the snapshot of the service
Start(o) ==
    /\ pc = "idle"
    /\ op' = o
    /\ pre' = [subs |-> subs, members |-> members]

\* issue SDK call c and suspend at position p
Issue(c, p) ==
    /\ calls' = Append(calls, c)
    /\ inflight' = inflight \cup {Len(calls) + 1}
    /\ pc' = p

\* the awaited call (the last one issued) is answered
Answered == inflight' = inflight \ {Len(calls)}

\* the invocation ends with value r
Finish(r) ==
    /\ result' = r
    /\ pc' = "done"

\* ------------------------------------------------------------ loginToApim
DateGetTime(expiresOn) == IF expiresOn = InvalidDate THEN NaN ELSE expiresOn

NumGeq(a, b) == a # NaN /\ b # NaN /\ a >= b

tokenExpireTime(tokenCreds) ==
    IF tokenCreds.present THEN DateGetTime(tokenCreds.expiresOn) ELSE AbsentExpireTime

isTokenExpired(tokenCreds, t) == NumGeq(tokenExpireTime(tokenCreds), t)

LoginToApimCall(tokenCreds) ==
    /\ Start([NoOp EXCEPT !.name = "loginToApim", !.cred = tokenCreds])
    /\ loc' = [loc EXCEPT !.nowRead = now]
    /\ IF tokenCreds.present /\ ~isTokenExpired(tokenCreds, now)
       THEN /\ Finish(Cred(tokenCreds))
            /\ UNCHANGED <<calls, inflight>>
       ELSE /\ Issue(Call("loginWithAppServiceMSI", 0, "", NoParams), "login_await")
            /\ UNCHANGED result
    /\ UNCHANGED <<now, service>>

LoginWithAppServiceMSIReturns ==
    /\ pc = "login_await"
    /\ \/ /\ calls' = Append(calls, Call("getToken", 0, "", NoParams))
          /\ inflight' = (inflight \ {Len(calls)}) \cup {Len(calls) + 1}
          /\ pc' = "token_await"
          /\ UNCHANGED result
       \/ /\ Answered
          /\ Finish(Throw("login"))
          /\ UNCHANGED calls
    /\ UNCHANGED <<now, service, op, loc, pre>>

GetTokenReturns ==
    /\ pc = "token_await"
    /\ Answered
    /\ \/ Finish(Cred([present |-> TRUE, src |-> "login", expiresOn |-> now + TokenLifetime]))
       \/ Finish(Throw("getToken"))
    /\ UNCHANGED <<now, service, op, loc, calls, pre>>

\* the awaited call is answered and call c is issued; suspend at position p
Reissue(c, p) ==
    /\ calls' = Append(calls, c)
    /\ inflight' = (inflight \ {Len(calls)}) \cup {Len(calls) + 1}
    /\ pc' = p

\* ---------------------------------------------------- getUserSubscription
\* mutant: the ownership comparison is left out, only the name is checked
getUserSubscriptionResultNameOnly(subscription, userId) ==
    IF subscription.name = NoName
    THEN None
    ELSE Some(subscription)

\* lines 96-99: the ownership check on the record subscription.get answered
getUserSubscriptionResult(subscription, userId) ==
    IF subscription.userId # userId \/ subscription.name = NoName
    THEN None
    ELSE Some(subscription)

\* apiClient.subscription.get: the stored record; an unknown id is answered
\* with an empty record (or rejected, in the actions below)
SubscriptionGet(sid) == subs[sid]

SubscriptionGetCall(sid) == Call("subscription.get", sid, "", NoParams)

GetUserSubscriptionCall(sid, userId) ==
    /\ Start([NoOp EXCEPT !.name = "getUserSubscription", !.sid = sid, !.userId = userId])
    /\ Issue(SubscriptionGetCall(sid), "gus_await")
    /\ UNCHANGED <<now, service, loc, result>>

GetUserSubscriptionReturns ==
    /\ pc = "gus_await"
    /\ Answered
    /\ \/ Finish(getUserSubscriptionResult(SubscriptionGet(op.sid), op.userId))
       \/ Finish(Throw("subscription.get"))
    /\ UNCHANGED <<now, service, op, loc, calls, pre>>

\* ------------------------------ regeneratePrimaryKey / regenerateSecondaryKey
RegenerateCall(fn, sid, userId) ==
    /\ regenCount + ulidCount < MaxWrites
    /\ Start([NoOp EXCEPT !.name = fn, !.sid = sid, !.userId = userId])
    /\ Issue(SubscriptionGetCall(sid), "regen_first")
    /\ UNCHANGED <<now, service, loc, result>>

RegeneratePrimaryKeyCall(sid, userId) == RegenerateCall("regeneratePrimaryKey", sid, userId)

RegenerateSecondaryKeyCall(sid, userId) == RegenerateCall("regenerateSecondaryKey", sid, userId)

\* mutant: the isNone short-circuit is left out
RegenFirstLookupReturnsNoCheck ==
    /\ pc = "regen_first"
    /\ \/ /\ Reissue(Call("subscription." \o op.name, op.sid, "", NoParams), "regen_mutate")
          /\ loc' = [loc EXCEPT !.first = SubscriptionGet(op.sid)]
          /\ UNCHANGED result
       \/ /\ Answered
          /\ Finish(Throw("subscription.get"))
          /\ UNCHANGED <<calls, loc>>
    /\ UNCHANGED <<now, service, op, pre>>

\* the first getUserSubscription is answered: return none, or regenerate
RegenFirstLookupReturns ==
    /\ pc = "regen_first"
    /\ \/ LET maybeSubscription == getUserSubscriptionResult(SubscriptionGet(op.sid), op.userId)
          IN IF maybeSubscription.tag = "none"
             THEN /\ Answered
                  /\ Finish(None)
                  /\ UNCHANGED <<calls, loc>>
             ELSE /\ Reissue(Call("subscription." \o op.name, op.sid, "", NoParams), "regen_mutate")
                  /\ loc' = [loc EXCEPT !.first = maybeSubscription.sub]
                  /\ UNCHANGED result
       \/ /\ Answered
          /\ Finish(Throw("subscription.get"))
          /\ UNCHANGED <<calls, loc>>
    /\ UNCHANGED <<now, service, op, pre>>

\* the service replaces the key named by the call
Regenerated(subscription, fn) ==
    IF fn = "regeneratePrimaryKey"
    THEN [subscription EXCEPT !.primaryKey = @ + 1]
    ELSE [subscription EXCEPT !.secondaryKey = @ + 1]

\* the regenerate call is answered: look the subscription up again
RegenerateReturns ==
    /\ pc = "regen_mutate"
    /\ \/ /\ subs' = [subs EXCEPT ![op.sid] = Regenerated(@, op.name)]
          /\ regenCount' = regenCount + 1
          /\ Reissue(SubscriptionGetCall(op.sid), "regen_second")
          /\ UNCHANGED result
       \/ /\ Answered
          /\ Finish(Throw("subscription." \o op.name))
          /\ UNCHANGED <<calls, subs, regenCount>>
    /\ UNCHANGED <<now, members, ulidCount, op, loc, pre>>

\* mutant: the record of the first lookup is returned instead of the re-fetched one
RegenSecondLookupReturnsStale ==
    /\ pc = "regen_second"
    /\ Answered
    /\ \/ Finish(Some(loc.first))
       \/ Finish(Throw("subscription.get"))
    /\ UNCHANGED <<now, service, op, loc, calls, pre>>

\* the second getUserSubscription is answered: its result is returned
RegenSecondLookupReturns ==
    /\ pc = "regen_second"
    /\ Answered
    /\ \/ Finish(getUserSubscriptionResult(SubscriptionGet(op.sid), op.userId))
       \/ Finish(Throw("subscription.get"))
    /\ UNCHANGED <<now, service, op, loc, calls, pre>>

\* ------------------------------------------- addUserSubscriptionToProduct
\* ulid(): a new identifier, after the ones the service holds at start
Ulid(n) == Len(InitSubs) + n + 1

ProductGet(productName) == Products[productName]

AddUserSubscriptionToProductCall(userId, productName) ==
    /\ regenCount + ulidCount < MaxWrites
    /\ Start([NoOp EXCEPT !.name = "addUserSubscriptionToProduct", !.userId = userId,
                          !.productName = productName])
    /\ Issue(Call("product.get", 0, productName, NoParams), "ausp_product")
    /\ UNCHANGED <<now, service, loc, result>>

\* mutant: only a missing product is refused, a product without id is not
ProductGetReturnsNoIdCheck ==
    /\ pc = "ausp_product"
    /\ \/ LET product == ProductGet(op.productName)
          IN IF ~product.present
             THEN /\ Answered
                  /\ Finish(Left("Cannot find API management product for update"))
                  /\ UNCHANGED <<calls, loc, ulidCount>>
             ELSE LET subscriptionId == Ulid(ulidCount)
                  IN /\ ulidCount' = ulidCount + 1
                     /\ Reissue(Call("subscription.createOrUpdate", subscriptionId, "",
                                     [displayName |-> subscriptionId, productId |-> product.id,
                                      state |-> "active", userId |-> op.userId]),
                                "ausp_create")
                     /\ loc' = [loc EXCEPT !.product = product]
                     /\ UNCHANGED result
       \/ /\ Answered
          /\ Finish(Throw("product.get"))
          /\ UNCHANGED <<calls, loc, ulidCount>>
    /\ UNCHANGED <<now, subs, members, regenCount, op, pre>>

\* product.get is answered: fail without an id, else create the subscription
ProductGetReturns ==
    /\ pc = "ausp_product"
    /\ \/ LET product == ProductGet(op.productName)
          IN IF ~product.present \/ product.id = ""
             THEN /\ Answered
                  /\ Finish(Left("Cannot find API management product for update"))
                  /\ UNCHANGED <<calls, loc, ulidCount>>
             ELSE LET subscriptionId == Ulid(ulidCount)
                  IN /\ ulidCount' = ulidCount + 1
                     /\ Reissue(Call("subscription.createOrUpdate", subscriptionId, "",
                                     [displayName |-> subscriptionId, productId |-> product.id,
                                      state |-> "active", userId |-> op.userId]),
                                "ausp_create")
                     /\ loc' = [loc EXCEPT !.product = product]
                     /\ UNCHANGED result
       \/ /\ Answered
          /\ Finish(Throw("product.get"))
          /\ UNCHANGED <<calls, loc, ulidCount>>
    /\ UNCHANGED <<now, subs, members, regenCount, op, pre>>

\* the record the service stores for a createOrUpdate call
Created(c, old) ==
    [exists |-> TRUE, userId |-> c.params.userId, name |-> c.sid,
     displayName |-> c.params.displayName, productId |-> c.params.productId,
     state |-> c.params.state, primaryKey |-> old.primaryKey, secondaryKey |-> old.secondaryKey]

\* createOrUpdate is answered: the stored record is returned as right
CreateOrUpdateReturns ==
    /\ pc = "ausp_create"
    /\ Answered
    /\ \/ LET c == calls[Len(calls)]
              stored == Created(c, subs[c.sid])
          IN /\ subs' = [subs EXCEPT ![c.sid] = stored]
             /\ Finish(RightSub(stored))
       \/ /\ Finish(Throw("subscription.createOrUpdate"))
          /\ UNCHANGED subs
    /\ UNCHANGED <<now, members, ulidCount, regenCount, op, loc, calls, pre>>

\* -------------------------------------------------------- addUserToGroups
SeqFilterNotIn(groups, S) ==
    {groups[i] : i \in {j \in 1..Len(groups) : groups[j] \notin S}}

AddUserToGroupsCall(user, groups) ==
    /\ Start([NoOp EXCEPT !.name = "addUserToGroups", !.user = user, !.groups = groups])
    /\ IF ~user.present \/ user.name = ""
       THEN /\ Finish(Left("Cannot parse user"))
            /\ UNCHANGED <<calls, inflight>>
       ELSE /\ Issue(Call("userGroup.list", 0, user.name, NoParams), "autg_list")
            /\ UNCHANGED result
    /\ UNCHANGED <<now, service, loc>>

\* mutant: the early return for an empty set of missing groups is left out
UserGroupListReturnsNoShortCircuit ==
    /\ pc = "autg_list"
    /\ Answered
    /\ \/ /\ pc' = "autg_reduce"
          /\ loc' = [loc EXCEPT !.existing = members[op.user.name],
                                !.missing = SeqFilterNotIn(op.groups, members[op.user.name]),
                                !.steps = [i \in 1..Len(op.groups) |-> "awaitPrev"],
                                !.vals = [i \in 1..Len(op.groups) |-> <<>>],
                                !.stepCall = [i \in 1..Len(op.groups) |-> 0]]
          /\ UNCHANGED result
       \/ /\ Finish(Throw("userGroup.list"))
          /\ UNCHANGED loc
    /\ UNCHANGED <<now, service, op, calls, pre>>

\* userGroup.list is answered: nothing missing returns right([]); otherwise
\* groups.reduce runs its callback once per element, each suspended on prev
UserGroupListReturns ==
    /\ pc = "autg_list"
    /\ Answered
    /\ \/ LET existingGroupsNames == members[op.user.name]
              missingGroups == SeqFilterNotIn(op.groups, existingGroupsNames)
          IN IF Cardinality(missingGroups) = 0
             THEN /\ Finish(RightList(<<>>))
                  /\ loc' = [loc EXCEPT !.existing = existingGroupsNames,
                                        !.missing = missingGroups]
             ELSE /\ pc' = "autg_reduce"
                  /\ loc' = [loc EXCEPT !.existing = existingGroupsNames,
                                        !.missing = missingGroups,
                                        !.steps = [i \in 1..Len(op.groups) |-> "awaitPrev"],
                                        !.vals = [i \in 1..Len(op.groups) |-> <<>>],
                                        !.stepCall = [i \in 1..Len(op.groups) |-> 0]]
                  /\ UNCHANGED result
       \/ /\ Finish(Throw("userGroup.list"))
          /\ UNCHANGED loc
    /\ UNCHANGED <<now, service, op, calls, pre>>

\* the promise callback i awaits has resolved (the seed Promise.resolve([]) has)
PrevResolved(i) == IF i = 1 THEN TRUE ELSE loc.steps[i - 1] = "resolved"

PrevValue(i) == IF i = 1 THEN <<>> ELSE loc.vals[i - 1]

\* mutant: the callback does not await prev before it issues its call (a fan-out)
GroupUserCreateCallNoAwait(i) ==
    /\ pc = "autg_reduce"
    /\ i \in 1..Len(op.groups)
    /\ loc.steps[i] = "awaitPrev"
    /\ calls' = Append(calls, Call("groupUser.create", 0, op.groups[i], NoParams))
    /\ inflight' = inflight \cup {Len(calls) + 1}
    /\ loc' = [loc EXCEPT !.steps[i] = "inflight", !.stepCall[i] = Len(calls) + 1]
    /\ UNCHANGED <<now, service, pc, op, result, pre>>

\* callback i resumes after `await prev` and issues groupUser.create
GroupUserCreateCall(i) ==
    /\ pc = "autg_reduce"
    /\ i \in 1..Len(op.groups)
    /\ loc.steps[i] = "awaitPrev"
    /\ PrevResolved(i)
    /\ calls' = Append(calls, Call("groupUser.create", 0, op.groups[i], NoParams))
    /\ inflight' = inflight \cup {Len(calls) + 1}
    /\ loc' = [loc EXCEPT !.steps[i] = "inflight", !.vals[i] = PrevValue(i),
                          !.stepCall[i] = Len(calls) + 1]
    /\ UNCHANGED <<now, service, pc, op, result, pre>>

\* `await prev` throws in callback i: its promise rejects, no call is issued
GroupStepPrevRejected(i) ==
    /\ pc = "autg_reduce"
    /\ i \in 2..Len(op.groups)
    /\ loc.steps[i] = "awaitPrev"
    /\ loc.steps[i - 1] = "rejected"
    /\ loc' = [loc EXCEPT !.steps[i] = "rejected"]
    /\ UNCHANGED <<now, service, pc, op, calls, inflight, result, pre>>

\* groupUser.create of callback i is answered
GroupUserCreateReturns(i) ==
    /\ pc = "autg_reduce"
    /\ i \in 1..Len(op.groups)
    /\ loc.steps[i] = "inflight"
    /\ inflight' = inflight \ {loc.stepCall[i]}
    /\ \/ /\ members' = [members EXCEPT ![op.user.name] = @ \cup {op.groups[i]}]
          /\ loc' = [loc EXCEPT !.steps[i] = "resolved",
                                !.vals[i] = Append(@, op.groups[i])]
       \/ /\ loc' = [loc EXCEPT !.steps[i] = "rejected"]
          /\ UNCHANGED members
    /\ UNCHANGED <<now, subs, ulidCount, regenCount, pc, op, calls, result, pre>>

\* the promise reduce returned settles: right(list), or the rejection
ReduceSettles ==
    /\ pc = "autg_reduce"
    /\ LET n == Len(op.groups)
       IN IF n = 0
          THEN Finish(RightList(<<>>))
          ELSE IF loc.steps[n] = "resolved"
          THEN Finish(RightList(loc.vals[n]))
          ELSE /\ loc.steps[n] = "rejected"
               /\ Finish(Throw("groupUser.create"))
    /\ UNCHANGED <<now, service, op, loc, calls, inflight, pre>>

\* ------------------------------------------------------------- scheduling
Return ==
    /\ pc = "done"
    /\ pc' = "idle"
    /\ op' = NoOp
    /\ loc' = NoLoc
    /\ calls' = <<>>
    /\ inflight' = {}
    /\ result' = Pending
    /\ pre' = [subs |-> subs, members |-> members]
    /\ UNCHANGED <<now, service>>

Tick ==
    /\ now < MaxTime
    /\ now' = now + 1
    /\ UNCHANGED <<service, pc, op, loc, calls, inflight, result, pre>>

Next ==
    \/ \E c \in CredArgs : LoginToApimCall(c)
    \/ LoginWithAppServiceMSIReturns
    \/ GetTokenReturns
    \/ \E sid \in SubIds, userId \in UserIds : GetUserSubscriptionCall(sid, userId)
    \/ GetUserSubscriptionReturns
    \/ \E sid \in SubIds, userId \in UserIds : RegeneratePrimaryKeyCall(sid, userId)
    \/ \E sid \in SubIds, userId \in UserIds : RegenerateSecondaryKeyCall(sid, userId)
    \/ RegenFirstLookupReturns
    \/ RegenerateReturns
    \/ RegenSecondLookupReturns
    \/ \E userId \in UserIds, productName \in ProductNames :
            AddUserSubscriptionToProductCall(userId, productName)
    \/ ProductGetReturns
    \/ CreateOrUpdateReturns
    \/ \E user \in UserArgs, groups \in GroupLists : AddUserToGroupsCall(user, groups)
    \/ UserGroupListReturns
    \/ \E i \in 1..(MaxGroupsLen + 1) : GroupUserCreateCall(i)
    \/ \E i \in 1..(MaxGroupsLen + 1) : GroupStepPrevRejected(i)
    \/ \E i \in 1..(MaxGroupsLen + 1) : GroupUserCreateReturns(i)
    \/ ReduceSettles
    \/ Return
    \/ Tick

Spec == Init /\ [][Next]_vars

\* ------------------------------------------------------------ properties
Range(q) == {q[i] : i \in 1..Len(q)}

\* the indices in calls of the calls to api
CallsTo(api) == {i \in 1..Len(calls) : calls[i].api = api}

\* the groupUser.create calls issued, in order
GroupAdds == SelectSeq(calls, LAMBDA c : c.api = "groupUser.create")

Done(fn) == pc = "done" /\ op.name = fn

RegenFns == {"regeneratePrimaryKey", "regenerateSecondaryKey"}

RegenCalls == CallsTo("subscription.regeneratePrimaryKey") \cup CallsTo("subscription.regenerateSecondaryKey")

\* the key the running regenerate function replaces
KeyOf(subscription) ==
    IF op.name = "regeneratePrimaryKey" THEN subscription.primaryKey ELSE subscription.secondaryKey

\* the passed credential is absent, or its expiry is at or before the time read
AbsentOrExpired ==
    \/ ~op.cred.present
    \/ op.cred.expiresOn # InvalidDate /\ op.cred.expiresOn <= loc.nowRead

\* the passed credential is present and its expiry is after the time read
StillValid ==
    op.cred.present /\ op.cred.expiresOn # InvalidDate /\ op.cred.expiresOn > loc.nowRead

\* C1: a loginToApim call whose credential is absent or has expiry <= now
\* logs in once, fetches the token once and returns the new credential,
\* never the passed one (calls that end in an authentication failure aside).
C1_ExpiredCredentialIsReplaced ==
    (Done("loginToApim") /\ AbsentOrExpired /\ result.tag # "throw")
        => /\ Cardinality(CallsTo("loginWithAppServiceMSI")) = 1
           /\ Cardinality(CallsTo("getToken")) = 1
           /\ result.tag = "cred"
           /\ result.cred.src = "login"

\* C2: a loginToApim call whose credential is present with expiry > now
\* returns that credential unchanged and issues no login or token-fetch call.
C2_ValidCredentialIsKept ==
    (op.name = "loginToApim" /\ StillValid)
        => /\ calls = <<>>
           /\ pc = "done" => result = Cred(op.cred)

\* C3: addUserToGroups issues exactly one groupUser.create per group of
\* (desired minus current), none for a group the user already belongs to, and
\* returns the list of the groups it added. Stated for desired lists that
\* name no group twice (the desired groups are a set).
C3_OnlyMissingGroupsAreAdded ==
    (Done("addUserToGroups") /\ result.tag = "right"
        /\ Cardinality(Range(op.groups)) = Len(op.groups))
        => LET missing == Range(op.groups) \ pre.members[op.user.name]
           IN /\ Range(GroupAdds) = {Call("groupUser.create", 0, g, NoParams) : g \in missing}
              /\ Len(GroupAdds) = Cardinality(missing)
              /\ Range(result.list) = missing
              /\ Len(result.list) = Cardinality(missing)

\* the record the first lookup of a regenerate call reads is not the caller's
\* (another userId) or has no name
FirstLookupAbsent ==
    /\ op.name \in RegenFns
    /\ pre.subs[op.sid].userId # op.userId \/ pre.subs[op.sid].name = NoName

\* C4: when the first ownership lookup of regeneratePrimaryKey or
\* regenerateSecondaryKey yields absent, no regenerate call is ever issued, the
\* subscriptions are unchanged and the function returns absent.
C4_NotOwnedIsNeverRegenerated ==
    FirstLookupAbsent
        => /\ RegenCalls = {}
           /\ subs = pre.subs
           /\ pc \in {"regen_first", "done"}
           /\ (pc = "done" /\ result.tag # "throw") => result = None

C4_Witness ==
    /\ Done("regeneratePrimaryKey")
    /\ pre.subs[op.sid].exists
    /\ pre.subs[op.sid].userId # op.userId
    /\ pre.subs[op.sid].name # NoName
    /\ result = None

\* C5: getUserSubscription returns absent when the stored record's userId
\* differs from the requested one or the record has no name; a present result
\* is the stored record and its userId is the requested userId.
C5_PresentResultIsOwned ==
    /\ (Done("getUserSubscription") /\ result.tag # "throw")
        => /\ result.tag \in {"none", "some"}
           /\ (subs[op.sid].userId # op.userId \/ subs[op.sid].name = NoName)
                => result = None
           /\ result.tag = "some" => result.sub = subs[op.sid]
    /\ (pc = "done" /\ result.tag = "some") => result.sub.userId = op.userId

C5_Witness ==
    /\ Done("getUserSubscription")
    /\ subs[op.sid].exists
    /\ subs[op.sid].name # NoName
    /\ subs[op.sid].userId # op.userId
    /\ result = None

\* C6: within one addUserToGroups invocation at most one groupUser.create call
\* is in flight at any time, and the calls are issued in the order of the
\* input list.
C6_GroupAddsOneAtATime ==
    op.name = "addUserToGroups"
        => /\ Cardinality({i \in inflight : calls[i].api = "groupUser.create"}) <= 1
           /\ \A k \in 1..Len(GroupAdds) : GroupAdds[k].key = op.groups[k]

C6_Witness ==
    /\ Done("addUserToGroups")
    /\ Len(GroupAdds) >= 2
    /\ result.tag = "right"

\* userGroup.list of the running addUserToGroups invocation has answered
GroupsListed ==
    /\ op.name = "addUserToGroups"
    /\ op.user.present /\ op.user.name # ""
    /\ pc \in {"autg_reduce", "done"}
    /\ ~(pc = "done" /\ result = Throw("userGroup.list"))

\* C7: when every desired group is among the user's current groups (an empty
\* desired list included) addUserToGroups returns right([]), issues no
\* groupUser.create call and leaves the memberships unchanged.
C7_NothingMissingIsNoOp ==
    (GroupsListed /\ Range(op.groups) \subseteq pre.members[op.user.name])
        => /\ pc = "done"
           /\ result = RightList(<<>>)
           /\ CallsTo("groupUser.create") = {}
           /\ members = pre.members

C7_Witness ==
    /\ Done("addUserToGroups")
    /\ op.user.present /\ op.user.name # ""
    /\ op.groups # <<>>
    /\ Range(op.groups) \subseteq pre.members[op.user.name]
    /\ result = RightList(<<>>)

\* product.get of the running addUserSubscriptionToProduct invocation has answered
ProductLookedUp ==
    /\ op.name = "addUserSubscriptionToProduct"
    /\ pc \in {"ausp_create", "done"}
    /\ ~(pc = "done" /\ result = Throw("product.get"))

\* C8: when product.get answers no product or a product without id,
\* addUserSubscriptionToProduct returns an error value and never issues
\* createOrUpdate; otherwise it issues exactly one createOrUpdate with the
\* product's id, state "active" and the requested userId, and what it returns
\* as success is the record that call stored.
C8_ProductDecidesCreate ==
    ProductLookedUp
        => LET product == Products[op.productName]
               creates == CallsTo("subscription.createOrUpdate")
           IN IF ~product.present \/ product.id = ""
              THEN /\ creates = {}
                   /\ pc = "done"
                   /\ result.tag = "left"
                   /\ subs = pre.subs
              ELSE /\ Cardinality(creates) = 1
                   /\ \A i \in creates :
                        /\ calls[i].params.productId = product.id
                        /\ calls[i].params.state = "active"
                        /\ calls[i].params.userId = op.userId
                        /\ (pc = "done" /\ result.tag # "throw")
                            => /\ result.tag = "right"
                               /\ result.sub = subs[calls[i].sid]
                               /\ result.sub.productId = product.id
                               /\ result.sub.state = "active"
                               /\ result.sub.userId = op.userId

C8_Witness ==
    /\ Done("addUserSubscriptionToProduct")
    /\ Products[op.productName].present
    /\ Products[op.productName].id = ""
    /\ result.tag = "left"

\* C9: when a groupUser.create call of addUserToGroups fails, no further call
\* is issued, the memberships already added stay, and the function ends by
\* returning the error as a left value, not by throwing.
C9_PartialFailureIsReturnedAsLeft ==
    (Done("addUserToGroups") /\ \E i \in 1..Len(loc.steps) : loc.steps[i] = "rejected")
        => /\ result.tag = "left"
           /\ \A i \in 1..Len(loc.steps) : \A j \in 1..Len(loc.steps) :
                (loc.steps[i] = "rejected" /\ j > i) => loc.stepCall[j] = 0
           /\ \A i \in 1..Len(loc.steps) :
                loc.steps[i] = "resolved" => op.groups[i] \in members[op.user.name]

\* C10: a regenerate call that returns a record has issued, in this order, the
\* ownership lookup, the regenerate call and a second lookup; the record is
\* the one stored after the regenerate call, and its key differs from the key
\* of the record read before it.
C10_ReturnsRefetchedRecord ==
    (pc = "done" /\ op.name \in RegenFns /\ result.tag = "some")
        => /\ [i \in 1..Len(calls) |-> calls[i].api]
                = <<"subscription.get", "subscription." \o op.name, "subscription.get">>
           /\ loc.first = pre.subs[op.sid]
           /\ result.sub = subs[op.sid]
           /\ KeyOf(result.sub) # KeyOf(loc.first)

C10_Witness ==
    /\ Done("regenerateSecondaryKey")
    /\ result.tag = "some"
    /\ result.sub.secondaryKey = loc.first.secondaryKey + 1
====
